---- MODULE Spec2Model ----
(***************************************************************************)
(* Two independent samples of the repository:                              *)
(*                                                                         *)
(*  - tests/integration/test_by_waiting.py: the unittest test case         *)
(*    TestMinimalPluginByWaiting (class body, setUp, the test method,      *)
(*    tearDown), run once by the unittest runner.  Specification Spec.     *)
(*                                                                         *)
(*  - adapters/HandleStockRequest.py: getStocksRequest.  Specification     *)
(*    StockSpec.                                                           *)
(*                                                                         *)
(* A client call (get_stack_outputs, add_listener, start_execution,        *)
(* wait_until_event_matched, remove_listeners, retrieveStock) either       *)
(* returns or raises; which of the two is the environment's choice.        *)
(***************************************************************************)
EXTENDS Integers, Sequences, FiniteSets

\* ------------------------------------------------------------------------
\* Bounds of the model
\* ------------------------------------------------------------------------
MaxEvents == 2      \* events delivered to the listener during one wait
MaxStrLen == 2      \* length of a string returned by retrieveStock
MaxInt == 10        \* largest integer returned by retrieveStock

\* ------------------------------------------------------------------------
\* Values
\* ------------------------------------------------------------------------
\* Python's None (os.environ.get of an absent variable, an unset attribute)
None == "None"

\* class attribute SLA_TIMEOUT_SECONDS
SLA_TIMEOUT_SECONDS == 20

\* what os.environ can hold for a variable: absent, empty, or a value
RegionValues == {None, "", "us-east-1"}
StackNameValues == {None, "plugin-tester"}

\* ids the test kit may hand out for a new listener
ListenerIds == {"listener-1", "listener-2"}

\* events the cloned rule can deliver: the EventBridge envelope always
\* carries "source" and "detail-type"
Sources == {"video.plugin.PythonMinimalPlugin", "video.plugin.Other"}
DetailTypes == {"plugin-complete", "plugin-failed"}
Events == [source : Sources, detail_type : DetailTypes]

VARIABLES
    environ,                  \* os.environ: AWS_REGION, PLUGIN_TESTER_STACK_NAME
    pc,                       \* position of the test run
    aws_region,               \* class attribute
    plugin_tester_stack_name, \* class attribute
    clients,                  \* clients constructed by the class body
    plugin_tester_arn,        \* self.plugin_tester_arn
    existing_rule_name,       \* self.existing_rule_name
    listener_id,              \* self.listener_id
    event_was_matched,        \* result of wait_until_event_matched
    raised,                   \* exception that ended each phase, or None
    calls,                    \* client calls made so far, in order
    acquired,                 \* handles returned by add_listener
    released,                 \* handles the event bus has removed
    live,                     \* this test's listeners live on the event bus
    clock,                    \* seconds elapsed inside the wait
    received,                 \* events fed to the predicate, in order
    returnedAt,               \* clock at which the wait returned
    \* ---- getStocksRequest ----
    spc,                      \* position inside getStocksRequest
    stockID,                  \* argument
    stockData,                \* local stockData
    response,                 \* local response (Unbound until assigned)
    printed,                  \* what print() wrote
    caught,                   \* the exception bound to e
    result                    \* what the caller gets: a return or a fault

testVars == <<environ, pc, aws_region, plugin_tester_stack_name, clients,
              plugin_tester_arn, existing_rule_name, listener_id,
              event_was_matched, raised, calls, acquired, released, live,
              clock, received, returnedAt>>
stockVars == <<spc, stockID, stockData, response, printed, caught, result>>
vars == <<testVars, stockVars>>

\* ========================================================================
\* getStocksRequest (adapters/HandleStockRequest.py)
\* ========================================================================

\* identifiers the handler is called with
StockIDs == {"AMZN", "MSFT"}

\* errors HttpHandler.retrieveStock can raise (all are Exception subclasses)
ProviderErrors == {"ConnectionError", "HTTPError", "KeyError"}

\* characters of a returned string: a letter, a quote, a backslash, a newline
Chars == {"a", "\"", "\\", "\n"}

Strings == UNION {[1..n -> Chars] : n \in 0..MaxStrLen}

\* values HttpHandler.retrieveStock can return: JSON-serializable scalars
JNull == [t |-> "null"]
JBool(b) == [t |-> "bool", b |-> b]
JInt(i) == [t |-> "int", i |-> i]
JStr(s) == [t |-> "str", s |-> s]
StockValues ==
    {JNull} \cup {JBool(b) : b \in BOOLEAN}
            \cup {JInt(i) : i \in (-1)..MaxInt}
            \cup {JStr(s) : s \in Strings}

\* ---- json.dumps: a text is a sequence of characters ----------------------

DigitChars == <<"0", "1", "2", "3", "4", "5", "6", "7", "8", "9">>

RECURSIVE DumpsNat(_)
DumpsNat(n) ==
    IF n < 10 THEN <<DigitChars[n + 1]>>
    ELSE DumpsNat(n \div 10) \o <<DigitChars[(n % 10) + 1]>>

DumpsInt(i) == IF i < 0 THEN <<"-">> \o DumpsNat(-i) ELSE DumpsNat(i)

\* one character inside a JSON string literal
EscapeChar(c) ==
    CASE c = "\"" -> <<"\\", "\"">>
      [] c = "\\" -> <<"\\", "\\">>
      [] c = "\n" -> <<"\\", "n">>
      [] OTHER -> <<c>>

RECURSIVE EscapeAll(_)
EscapeAll(s) ==
    IF s = <<>> THEN <<>> ELSE EscapeChar(Head(s)) \o EscapeAll(Tail(s))

DumpsStr(s) == <<"\"">> \o EscapeAll(s) \o <<"\"">>

\* json.dumps of a scalar
Dumps(v) ==
    CASE v.t = "null" -> <<"n", "u", "l", "l">>
      [] v.t = "bool" -> IF v.b THEN <<"t", "r", "u", "e">>
                                ELSE <<"f", "a", "l", "s", "e">>
      [] v.t = "int" -> DumpsInt(v.i)
      [] v.t = "str" -> DumpsStr(v.s)

\* json.dumps({"message": v}) with the default separators ", " and ": "
DumpsMessage(v) ==
    <<"{">> \o DumpsStr(<<"m", "e", "s", "s", "a", "g", "e">>) \o <<":", " ">>
            \o Dumps(v) \o <<"}">>

\* the body written with string formatting, '{"message": "%s"}' % stockData
Envelope_Formatted(data) ==
    [statusCode |-> 200,
     body |-> <<"{">> \o DumpsStr(<<"m", "e", "s", "s", "a", "g", "e">>)
                      \o <<":", " ", "\"">>
                      \o (IF data.t = "str" THEN data.s ELSE Dumps(data))
                      \o <<"\"", "}">>]

\* response = {'statusCode': 200, 'body': json.dumps({"message": stockData})}
Envelope(data) == [statusCode |-> 200, body |-> DumpsMessage(data)]

\* the name "response" before its first assignment
Unbound == [unbound |-> TRUE]

NoResult == [kind |-> "none"]

StockIdle ==
    /\ spc = "idle"
    /\ stockID = None
    /\ stockData = None
    /\ response = Unbound
    /\ printed = <<>>
    /\ caught = None
    /\ result = NoResult

\* ========================================================================
\* TestMinimalPluginByWaiting (tests/integration/test_by_waiting.py)
\* ========================================================================

NoRaise == [load |-> None, setUp |-> None, test |-> None, tearDown |-> None]

Call(op, arg) == [op |-> op, arg |-> arg]

\* Init: the module is about to be imported; nothing has run.
Init ==
    /\ environ \in [AWS_REGION : RegionValues,
                    PLUGIN_TESTER_STACK_NAME : StackNameValues]
    /\ pc = "load_region"
    /\ aws_region = None
    /\ plugin_tester_stack_name = None
    /\ clients = {}
    /\ plugin_tester_arn = None
    /\ existing_rule_name = None
    /\ listener_id = None
    /\ event_was_matched = "unset"
    /\ raised = NoRaise
    /\ calls = <<>>
    /\ acquired = <<>>
    /\ released = <<>>
    /\ live = {}
    /\ clock = 0
    /\ received = <<>>
    /\ returnedAt = -1
    /\ StockIdle

\* ---- class body ----------------------------------------------------------

\* aws_region = os.environ.get("AWS_REGION"); raise if it is None
LoadRegion ==
    /\ pc = "load_region"
    /\ aws_region' = environ.AWS_REGION
    /\ IF environ.AWS_REGION = None
         THEN /\ raised' = [raised EXCEPT !.load = "Exception"]
              /\ pc' = "done"
         ELSE /\ pc' = "load_stack"
              /\ UNCHANGED raised
    /\ UNCHANGED <<environ, plugin_tester_stack_name, clients,
                   plugin_tester_arn, existing_rule_name, listener_id,
                   event_was_matched, calls, acquired, released, live, clock,
                   received, returnedAt, stockVars>>

\* the same step with the None check left out
LoadStackName_NoCheck ==
    /\ pc = "load_stack"
    /\ plugin_tester_stack_name' = environ.PLUGIN_TESTER_STACK_NAME
    /\ pc' = "init_clients"
    /\ UNCHANGED <<environ, aws_region, clients, raised, plugin_tester_arn,
                   existing_rule_name, listener_id, event_was_matched, calls,
                   acquired, released, live, clock, received, returnedAt,
                   stockVars>>

\* plugin_tester_stack_name = os.environ.get(...); raise if it is None
LoadStackName ==
    /\ pc = "load_stack"
    /\ plugin_tester_stack_name' = environ.PLUGIN_TESTER_STACK_NAME
    /\ IF environ.PLUGIN_TESTER_STACK_NAME = None
         THEN /\ raised' = [raised EXCEPT !.load = "Exception"]
              /\ pc' = "done"
         ELSE /\ pc' = "init_clients"
              /\ UNCHANGED raised
    /\ UNCHANGED <<environ, aws_region, clients, plugin_tester_arn,
                   existing_rule_name, listener_id, event_was_matched, calls,
                   acquired, released, live, clock, received, returnedAt,
                   stockVars>>

\* iatk_client = aws_iatk.AwsIatk(...); step_functions_client = boto3.client(...)
InitClients ==
    /\ pc = "init_clients"
    /\ clients' = {"iatk_client", "step_functions_client"}
    /\ pc' = "setUp_outputs"
    /\ UNCHANGED <<environ, aws_region, plugin_tester_stack_name, raised,
                   plugin_tester_arn, existing_rule_name, listener_id,
                   event_was_matched, calls, acquired, released, live, clock,
                   received, returnedAt, stockVars>>

\* ---- setUp ---------------------------------------------------------------

\* the same step with start_execution already sent here, before any
\* listener exists
SetUpGetStackOutputs_TriggersEarly ==
    /\ pc = "setUp_outputs"
    /\ calls' = calls \o <<Call("get_stack_outputs", plugin_tester_stack_name),
                           Call("start_execution", "arn:PluginLifecycleWorkflow")>>
    /\ plugin_tester_arn' = "arn:PluginLifecycleWorkflow"
    /\ existing_rule_name' = "PluginSuccessEventRule"
    /\ pc' = "setUp_listener"
    /\ UNCHANGED <<environ, aws_region, plugin_tester_stack_name, clients,
                   raised, listener_id, event_was_matched, acquired, released,
                   live, clock, received, returnedAt, stockVars>>

\* stack_outputs = self.iatk_client.get_stack_outputs(...), then the two
\* outputs are read.  A raise in setUp ends the run: unittest runs neither
\* the test method nor tearDown.
SetUpGetStackOutputs ==
    /\ pc = "setUp_outputs"
    /\ calls' = Append(calls, Call("get_stack_outputs", plugin_tester_stack_name))
    /\ \/ /\ plugin_tester_arn' = "arn:PluginLifecycleWorkflow"
          /\ existing_rule_name' = "PluginSuccessEventRule"
          /\ pc' = "setUp_listener"
          /\ UNCHANGED raised
       \/ /\ raised' = [raised EXCEPT !.setUp = "ServiceError"]
          /\ pc' = "done"
          /\ UNCHANGED <<plugin_tester_arn, existing_rule_name>>
    /\ UNCHANGED <<environ, aws_region, plugin_tester_stack_name, clients,
                   listener_id, event_was_matched, acquired, released, live,
                   clock, received, returnedAt, stockVars>>

\* the same step with the returned id never stored in self.listener_id
SetUpAddListener_NoStore ==
    /\ pc = "setUp_listener"
    /\ calls' = Append(calls, Call("add_listener", existing_rule_name))
    /\ \E id \in ListenerIds :
          /\ acquired' = Append(acquired, id)
          /\ live' = live \cup {id}
          /\ pc' = "test_start"
    /\ UNCHANGED <<environ, aws_region, plugin_tester_stack_name, clients,
                   raised, listener_id, plugin_tester_arn, existing_rule_name,
                   event_was_matched, released, clock, received, returnedAt,
                   stockVars>>

\* add_listener_output = self.iatk_client.add_listener(...);
\* self.listener_id = add_listener_output.id
SetUpAddListener ==
    /\ pc = "setUp_listener"
    /\ calls' = Append(calls, Call("add_listener", existing_rule_name))
    /\ \/ \E id \in ListenerIds :
             /\ acquired' = Append(acquired, id)
             /\ live' = live \cup {id}
             /\ listener_id' = id
             /\ pc' = "test_start"
             /\ UNCHANGED raised
       \/ /\ raised' = [raised EXCEPT !.setUp = "ServiceError"]
          /\ pc' = "done"
          /\ UNCHANGED <<acquired, live, listener_id>>
    /\ UNCHANGED <<environ, aws_region, plugin_tester_stack_name, clients,
                   plugin_tester_arn, existing_rule_name, event_was_matched,
                   released, clock, received, returnedAt, stockVars>>

\* ---- test_minimal_plugin_event_published_waiting -------------------------

\* self.step_functions_client.start_execution(stateMachineArn=..., input=...)
\* A raise in the test method is recorded and tearDown still runs.
TestStartExecution ==
    /\ pc = "test_start"
    /\ calls' = Append(calls, Call("start_execution", plugin_tester_arn))
    /\ \/ /\ pc' = "test_wait"
          /\ UNCHANGED raised
       \/ /\ raised' = [raised EXCEPT !.test = "ServiceError"]
          /\ pc' = "tearDown"
    /\ UNCHANGED <<environ, aws_region, plugin_tester_stack_name, clients,
                   plugin_tester_arn, existing_rule_name, listener_id,
                   event_was_matched, acquired, released, live, clock,
                   received, returnedAt, stockVars>>

\* the predicate with "or" in place of "and"
matched_event_is_correct_Or(event) ==
    \/ event.source = "video.plugin.PythonMinimalPlugin"
    \/ event.detail_type = "plugin-complete"

\* _matched_event_is_correct(received)
matched_event_is_correct(event) ==
    /\ event.source = "video.plugin.PythonMinimalPlugin"
    /\ event.detail_type = "plugin-complete"

\* self.iatk_client.wait_until_event_matched(listener_id=..., assertion_fn=...,
\* timeout_seconds=self.SLA_TIMEOUT_SECONDS): the call is entered
WaitBegin ==
    /\ pc = "test_wait"
    /\ calls' = Append(calls, Call("wait_until_event_matched", listener_id))
    /\ clock' = 0
    /\ pc' = "waiting"
    /\ UNCHANGED <<environ, aws_region, plugin_tester_stack_name, clients,
                   raised, plugin_tester_arn, existing_rule_name, listener_id,
                   event_was_matched, acquired, released, live, received,
                   returnedAt, stockVars>>

\* the wait: an event arrives on the listener before the deadline and is fed
\* to the predicate; the wait stops with True on the first match
WaitReceive ==
    /\ pc = "waiting"
    /\ clock < SLA_TIMEOUT_SECONDS
    /\ Len(received) < MaxEvents
    /\ \E e \in Events :
          /\ received' = Append(received, e)
          /\ IF matched_event_is_correct(e)
               THEN /\ event_was_matched' = "True"
                    /\ returnedAt' = clock
                    /\ pc' = "test_assert"
               ELSE UNCHANGED <<event_was_matched, returnedAt, pc>>
    /\ UNCHANGED <<environ, aws_region, plugin_tester_stack_name, clients,
                   raised, plugin_tester_arn, existing_rule_name, listener_id,
                   calls, acquired, released, live, clock, stockVars>>

\* the wait: a second passes with the wait still blocked
WaitTick ==
    /\ pc = "waiting"
    /\ clock < SLA_TIMEOUT_SECONDS
    /\ clock' = clock + 1
    /\ UNCHANGED <<environ, aws_region, plugin_tester_stack_name, clients,
                   raised, plugin_tester_arn, existing_rule_name, listener_id,
                   event_was_matched, calls, acquired, released, live,
                   received, returnedAt, pc, stockVars>>

\* the wait: the deadline has passed with no match; the call returns False
WaitTimeout ==
    /\ pc = "waiting"
    /\ clock >= SLA_TIMEOUT_SECONDS
    /\ event_was_matched' = "False"
    /\ returnedAt' = clock
    /\ pc' = "test_assert"
    /\ UNCHANGED <<environ, aws_region, plugin_tester_stack_name, clients,
                   raised, plugin_tester_arn, existing_rule_name, listener_id,
                   calls, acquired, released, live, clock, received,
                   stockVars>>

\* the wait: a poll of the listener raises (a service or network error);
\* polls are made only while the deadline has not passed
WaitRaise ==
    /\ pc = "waiting"
    /\ clock < SLA_TIMEOUT_SECONDS
    /\ raised' = [raised EXCEPT !.test = "ServiceError"]
    /\ pc' = "tearDown"
    /\ UNCHANGED <<environ, aws_region, plugin_tester_stack_name, clients,
                   plugin_tester_arn, existing_rule_name, listener_id,
                   event_was_matched, calls, acquired, released, live, clock,
                   received, returnedAt, stockVars>>

\* the assertion written as assertFalse
TestAssert_Negated ==
    /\ pc = "test_assert"
    /\ raised' = [raised EXCEPT !.test =
                     IF event_was_matched = "True" THEN "AssertionError" ELSE None]
    /\ pc' = "tearDown"
    /\ UNCHANGED <<environ, aws_region, plugin_tester_stack_name, clients,
                   plugin_tester_arn, existing_rule_name, listener_id,
                   event_was_matched, calls, acquired, released, live, clock,
                   received, returnedAt, stockVars>>

\* the check written as "if not event_was_matched: raise Exception(...)"
TestAssert_RaisesOnTimeout ==
    /\ pc = "test_assert"
    /\ raised' = [raised EXCEPT !.test =
                     IF event_was_matched = "True" THEN None ELSE "Exception"]
    /\ pc' = "tearDown"
    /\ UNCHANGED <<environ, aws_region, plugin_tester_stack_name, clients,
                   plugin_tester_arn, existing_rule_name, listener_id,
                   event_was_matched, calls, acquired, released, live, clock,
                   received, returnedAt, stockVars>>

\* self.assertTrue(event_was_matched): AssertionError (a test failure) when
\* the wait returned False; tearDown runs either way
TestAssert ==
    /\ pc = "test_assert"
    /\ raised' = [raised EXCEPT !.test =
                     IF event_was_matched = "True" THEN None ELSE "AssertionError"]
    /\ pc' = "tearDown"
    /\ UNCHANGED <<environ, aws_region, plugin_tester_stack_name, clients,
                   plugin_tester_arn, existing_rule_name, listener_id,
                   event_was_matched, calls, acquired, released, live, clock,
                   received, returnedAt, stockVars>>

\* ---- tearDown ------------------------------------------------------------

\* the listener removed only when the test method passed (the removal
\* written at the end of the test method instead of in tearDown)
TearDown_OnlyOnPass ==
    /\ pc = "tearDown"
    /\ IF raised.test = None
         THEN /\ calls' = Append(calls, Call("remove_listeners", listener_id))
              /\ live' = live \ {listener_id}
              /\ released' = released \o
                    (IF listener_id \in live THEN <<listener_id>> ELSE <<>>)
         ELSE UNCHANGED <<calls, live, released>>
    /\ pc' = "done"
    /\ UNCHANGED <<environ, aws_region, plugin_tester_stack_name, clients,
                   raised, plugin_tester_arn, existing_rule_name, listener_id,
                   event_was_matched, acquired, clock, received, returnedAt,
                   stockVars>>

\* tearDown with the remove_listeners call left out
TearDown_NoRemove ==
    /\ pc = "tearDown"
    /\ pc' = "done"
    /\ UNCHANGED <<environ, aws_region, plugin_tester_stack_name, clients,
                   raised, plugin_tester_arn, existing_rule_name, listener_id,
                   event_was_matched, calls, acquired, released, live, clock,
                   received, returnedAt, stockVars>>

\* self.iatk_client.remove_listeners(ids=[self.listener_id]).  When the call
\* raises, the listener may or may not have been removed by then.
TearDown ==
    /\ pc = "tearDown"
    /\ calls' = Append(calls, Call("remove_listeners", listener_id))
    /\ \/ /\ live' = live \ {listener_id}
          /\ released' = released \o
                (IF listener_id \in live THEN <<listener_id>> ELSE <<>>)
          /\ UNCHANGED raised
       \/ /\ raised' = [raised EXCEPT !.tearDown = "ServiceError"]
          /\ \/ UNCHANGED <<live, released>>
             \/ /\ live' = live \ {listener_id}
                /\ released' = released \o
                      (IF listener_id \in live THEN <<listener_id>> ELSE <<>>)
    /\ pc' = "done"
    /\ UNCHANGED <<environ, aws_region, plugin_tester_stack_name, clients,
                   plugin_tester_arn, existing_rule_name, listener_id,
                   event_was_matched, acquired, clock, received, returnedAt,
                   stockVars>>

Next ==
    \/ LoadRegion
    \/ LoadStackName
    \/ InitClients
    \/ SetUpGetStackOutputs
    \/ SetUpAddListener
    \/ TestStartExecution
    \/ WaitBegin
    \/ WaitReceive
    \/ WaitTick
    \/ WaitTimeout
    \/ WaitRaise
    \/ TestAssert
    \/ TearDown

Spec == Init /\ [][Next]_vars

\* One thread runs the test case: every step that can be taken is taken
\* (each client call returns or raises, and the wait's clock advances).
FairSpec == Spec /\ WF_vars(Next)


\* ========================================================================
\* getStocksRequest: the steps
\* ========================================================================

\* the test case is not running
TestIdle ==
    /\ environ = [AWS_REGION |-> None, PLUGIN_TESTER_STACK_NAME |-> None]
    /\ pc = "idle"
    /\ aws_region = None
    /\ plugin_tester_stack_name = None
    /\ clients = {}
    /\ plugin_tester_arn = None
    /\ existing_rule_name = None
    /\ listener_id = None
    /\ event_was_matched = "unset"
    /\ raised = NoRaise
    /\ calls = <<>>
    /\ acquired = <<>>
    /\ released = <<>>
    /\ live = {}
    /\ clock = 0
    /\ received = <<>>
    /\ returnedAt = -1

\* getStocksRequest(stockID) has just been called
StockInit ==
    /\ TestIdle
    /\ spc = "call"
    /\ stockID \in StockIDs
    /\ stockData = None
    /\ response = Unbound
    /\ printed = <<>>
    /\ caught = None
    /\ result = NoResult

\* stockData = HttpHandler.retrieveStock(stockID): returns a value or raises
RetrieveStock ==
    /\ spc = "call"
    /\ \/ \E v \in StockValues :
             /\ stockData' = v
             /\ spc' = "print"
             /\ UNCHANGED caught
       \/ \E e \in ProviderErrors :
             /\ caught' = e
             /\ spc' = "except"
             /\ UNCHANGED stockData
    /\ UNCHANGED <<stockID, response, printed, result, testVars>>

\* print("Stock Data", stockData)
PrintStockData ==
    /\ spc = "print"
    /\ printed' = Append(printed, [label |-> "Stock Data", data |-> stockData])
    /\ spc' = "build"
    /\ UNCHANGED <<stockID, stockData, response, caught, result, testVars>>

\* response = {...}
BuildResponse ==
    /\ spc = "build"
    /\ response' = Envelope(stockData)
    /\ spc' = "return"
    /\ UNCHANGED <<stockID, stockData, printed, caught, result, testVars>>

\* the except branch also building an envelope, with status 500
ExceptPrint_Builds500 ==
    /\ spc = "except"
    /\ printed' = Append(printed, [exc |-> caught])
    /\ response' = [statusCode |-> 500, body |-> DumpsMessage(JNull)]
    /\ spc' = "return"
    /\ UNCHANGED <<stockID, stockData, caught, result, testVars>>

\* except Exception as e: print(e)
ExceptPrint ==
    /\ spc = "except"
    /\ printed' = Append(printed, [exc |-> caught])
    /\ spc' = "return"
    /\ UNCHANGED <<stockID, stockData, response, caught, result, testVars>>

\* return response: UnboundLocalError when response was never assigned
ReturnResponse ==
    /\ spc = "return"
    /\ result' = IF response = Unbound
                   THEN [kind |-> "fault", exc |-> "UnboundLocalError"]
                   ELSE [kind |-> "return", value |-> response]
    /\ spc' = "done"
    /\ UNCHANGED <<stockID, stockData, response, printed, caught, testVars>>

StockNext ==
    \/ RetrieveStock
    \/ PrintStockData
    \/ BuildResponse
    \/ ExceptPrint
    \/ ReturnResponse

StockSpec == StockInit /\ [][StockNext]_vars


\* ========================================================================
\* Reading a body back: json.loads of the text of a one-key object
\* ========================================================================

Fail == [ok |-> FALSE]

IsDigit(c) == \E d \in 1..10 : DigitChars[d] = c
DigitValue(c) == (CHOOSE d \in 1..10 : DigitChars[d] = c) - 1

\* the characters of a string literal, from the one after its opening quote
RECURSIVE ScanStr(_, _, _)
ScanStr(t, i, acc) ==
    IF i > Len(t) THEN Fail
    ELSE IF t[i] = "\"" THEN [ok |-> TRUE, val |-> JStr(acc), next |-> i + 1]
    ELSE IF t[i] = "\\" THEN
        IF i + 1 > Len(t) THEN Fail
        ELSE CASE t[i + 1] = "\"" -> ScanStr(t, i + 2, Append(acc, "\""))
               [] t[i + 1] = "\\" -> ScanStr(t, i + 2, Append(acc, "\\"))
               [] t[i + 1] = "n" -> ScanStr(t, i + 2, Append(acc, "\n"))
               [] OTHER -> Fail
    ELSE IF t[i] = "\n" THEN Fail
    ELSE ScanStr(t, i + 1, Append(acc, t[i]))

RECURSIVE ScanNat(_, _, _, _)
ScanNat(t, i, acc, n) ==
    IF i <= Len(t) /\ IsDigit(t[i])
      THEN ScanNat(t, i + 1, acc * 10 + DigitValue(t[i]), n + 1)
      ELSE IF n = 0 THEN Fail
           ELSE [ok |-> TRUE, val |-> acc, next |-> i]

StartsWith(t, i, w) ==
    /\ i + Len(w) - 1 <= Len(t)
    /\ \A k \in 1..Len(w) : t[i + k - 1] = w[k]

LoadsValue(t, i) ==
    IF i > Len(t) THEN Fail
    ELSE IF t[i] = "\"" THEN ScanStr(t, i + 1, <<>>)
    ELSE IF StartsWith(t, i, <<"n", "u", "l", "l">>)
      THEN [ok |-> TRUE, val |-> JNull, next |-> i + 4]
    ELSE IF StartsWith(t, i, <<"t", "r", "u", "e">>)
      THEN [ok |-> TRUE, val |-> JBool(TRUE), next |-> i + 4]
    ELSE IF StartsWith(t, i, <<"f", "a", "l", "s", "e">>)
      THEN [ok |-> TRUE, val |-> JBool(FALSE), next |-> i + 5]
    ELSE IF t[i] = "-"
      THEN LET r == ScanNat(t, i + 1, 0, 0)
           IN IF r.ok THEN [ok |-> TRUE, val |-> JInt(-r.val), next |-> r.next]
              ELSE Fail
    ELSE LET r == ScanNat(t, i, 0, 0)
         IN IF r.ok THEN [ok |-> TRUE, val |-> JInt(r.val), next |-> r.next]
            ELSE Fail

RECURSIVE SkipSpaces(_, _)
SkipSpaces(t, i) ==
    IF i <= Len(t) /\ t[i] = " " THEN SkipSpaces(t, i + 1) ELSE i

\* the key and the value of the text of an object with exactly one member
LoadsObject(t) ==
    IF ~(Len(t) >= 2 /\ t[1] = "{" /\ t[2] = "\"") THEN Fail
    ELSE LET k == ScanStr(t, 3, <<>>)
         IN IF ~k.ok THEN Fail
            ELSE LET c == SkipSpaces(t, k.next)
                 IN IF ~(c <= Len(t) /\ t[c] = ":") THEN Fail
                    ELSE LET v == LoadsValue(t, SkipSpaces(t, c + 1))
                         IN IF ~v.ok THEN Fail
                            ELSE IF v.next = Len(t) /\ t[v.next] = "}"
                              THEN [ok |-> TRUE, key |-> k.val.s, value |-> v.val]
                              ELSE Fail

\* ========================================================================
\* Properties
\* ========================================================================

CallsOf(op) == {i \in DOMAIN calls : calls[i].op = op}

Count(seq, x) == Cardinality({i \in DOMAIN seq : seq[i] = x})

RemoveCallsFor(h) ==
    Cardinality({i \in DOMAIN calls : calls[i] = Call("remove_listeners", h)})

\* the event the test expects (spec section 8): its source and detail-type
IsExpectedEvent(e) ==
    /\ e.source = "video.plugin.PythonMinimalPlugin"
    /\ e.detail_type = "plugin-complete"

\* the harness states of spec section 4.2, read off the test's own state
HarnessState ==
    IF listener_id = None THEN "UNINITIALIZED"
    ELSE IF listener_id \notin live THEN "CLEANED_UP"
    ELSE IF event_was_matched = "True" THEN "MATCHED"
    ELSE IF event_was_matched = "False" THEN "TIMED_OUT"
    ELSE "LISTENING"

\* ---- C1 ------------------------------------------------------------------

\* C1 as stated: when the run has ended, remove_listeners was called once per
\* successful add_listener and every acquired handle has been released from
\* the bus exactly once, whichever call raised (remove_listeners included).
C1_ReleasedOncePerAcquire ==
    pc = "done" =>
        /\ Cardinality(CallsOf("remove_listeners")) = Len(acquired)
        /\ \A h \in ListenerIds : Count(released, h) = Count(acquired, h)

\* C1 amended: remove_listeners is called exactly once with each handle a
\* successful add_listener returned (never for a handle not acquired, never
\* twice), on every exit path; no handle is released more than once; and the
\* handle is released exactly once whenever that remove_listeners call
\* returns.  When remove_listeners itself raises, nothing retries it and the
\* handle may stay unreleased.
C1_RemoveCalledOncePerAcquire ==
    /\ \A h \in ListenerIds :
          /\ RemoveCallsFor(h) <= Count(acquired, h)
          /\ Count(released, h) <= RemoveCallsFor(h)
    /\ pc = "done" =>
          /\ Cardinality(CallsOf("remove_listeners")) = Len(acquired)
          /\ \A h \in ListenerIds : RemoveCallsFor(h) = Count(acquired, h)
          /\ raised.tearDown = None =>
                \A h \in ListenerIds : Count(released, h) = Count(acquired, h)

\* start_execution raised with a listener registered; tearDown released it
C1_Witness ==
    /\ pc = "done"
    /\ Len(acquired) = 1
    /\ raised.test = "ServiceError"
    /\ raised.tearDown = None
    /\ released = acquired

\* ---- C5 ------------------------------------------------------------------

\* C5 as stated: at most one listener of the test is live at any time,
\* exactly one during the act and wait steps, none once the run has ended.
C5_NoneLiveAfterEnd ==
    /\ Cardinality(live) <= 1
    /\ pc \in {"test_start", "test_wait", "waiting", "test_assert"}
          => Cardinality(live) = 1
    /\ pc = "done" => live = {}

\* C5 amended: at most one listener of the test is live at any time, exactly
\* one (the stored handle) during the act and wait steps, and none once the
\* run has ended with remove_listeners having returned, also when the test
\* body failed or timed out.  When remove_listeners raises, the listener
\* may remain live after the run.
C5_NoneLiveAfterRemoveReturned ==
    /\ Cardinality(live) <= 1
    /\ pc \in {"test_start", "test_wait", "waiting", "test_assert"}
          => live = {listener_id}
    /\ (pc = "done" /\ raised.tearDown = None) => live = {}

\* the wait timed out, the assertion failed, and the listener is gone
C5_Witness ==
    /\ pc = "done"
    /\ acquired # <<>>
    /\ raised.test = "AssertionError"
    /\ raised.tearDown = None
    /\ live = {}

\* ---- C6 ------------------------------------------------------------------

\* C6: with AWS_REGION or PLUGIN_TESTER_STACK_NAME absent, the class body
\* raises at the check of the absent variable, nothing after it runs (no
\* retry), no client is constructed and no client call is ever made.
C6_MissingConfigIsFatal ==
    (environ.AWS_REGION = None \/ environ.PLUGIN_TESTER_STACK_NAME = None) =>
        /\ clients = {}
        /\ calls = <<>>
        /\ pc \in {"idle", "load_region", "load_stack", "done"}
        /\ environ.AWS_REGION = None => pc # "load_stack"
        /\ pc = "done" => raised = [NoRaise EXCEPT !.load = "Exception"]

\* the region is set, the stack name is absent, and loading has raised
C6_Witness ==
    /\ pc = "done"
    /\ environ.AWS_REGION # None
    /\ environ.PLUGIN_TESTER_STACK_NAME = None
    /\ raised.load = "Exception"

\* ---- C10 -----------------------------------------------------------------

\* C10: start_execution is sent at most once, only after add_listener has
\* returned a handle and before any remove_listeners call, with the test's
\* listener live when it is sent; never when setUp raised.
C10_TriggerOnlyWhileListening ==
    LET starts == CallsOf("start_execution") IN
    /\ Cardinality(starts) <= 1
    /\ \A i \in starts :
          /\ \E j \in 1..(i - 1) : calls[j].op = "add_listener"
          /\ acquired # <<>>
          /\ \A k \in 1..(i - 1) : calls[k].op # "remove_listeners"
          /\ i = Len(calls) => (listener_id # None /\ listener_id \in live)
    /\ raised.setUp # None => starts = {}

\* the trigger was sent and the run has ended with the listener removed
C10_Witness ==
    /\ pc = "done"
    /\ Cardinality(CallsOf("start_execution")) = 1
    /\ Cardinality(CallsOf("remove_listeners")) = 1
    /\ event_was_matched = "True"


\* ---- C3 ------------------------------------------------------------------

\* C3: when an expected event arrives during the wait, before the deadline,
\* the wait ends in that same step, at that clock value, with True (no
\* expected event is ever followed by another received event); and once the
\* wait has returned True the assertion passes and the test goes on to
\* tearDown with no failure recorded.
C3_MatchReturnsTrueAtOnce ==
    [][ /\ (/\ pc = "waiting"
            /\ Len(received') = Len(received) + 1
            /\ IsExpectedEvent(received'[Len(received')]))
           => /\ event_was_matched' = "True"
              /\ pc' = "test_assert"
              /\ clock < SLA_TIMEOUT_SECONDS
              /\ clock' = clock
              /\ returnedAt' = clock
        /\ \A i \in 1..(Len(received') - 1) : ~IsExpectedEvent(received'[i])
        /\ (pc = "test_assert" /\ event_was_matched = "True" /\ pc' # pc)
           => /\ pc' = "tearDown"
              /\ raised'.test = None
      ]_vars

\* an expected event arrived after an unexpected one, part-way through the
\* deadline; the wait returned True then and the test passed
C3_Witness ==
    /\ pc = "done"
    /\ event_was_matched = "True"
    /\ Len(received) = 2
    /\ returnedAt > 0
    /\ returnedAt < SLA_TIMEOUT_SECONDS
    /\ raised.test = None

\* ---- C4 ------------------------------------------------------------------

\* C4: the wait returns False only with the full deadline elapsed and no
\* expected event received; when the deadline has expired the outcome is the
\* value False, not an exception; and the wait returns True only if an
\* expected event was received, so unexpected events do not end it.
C4_NoMatchReturnsFalseAtDeadline ==
    /\ event_was_matched = "False" =>
          /\ returnedAt = SLA_TIMEOUT_SECONDS
          /\ clock = SLA_TIMEOUT_SECONDS
          /\ \A i \in DOMAIN received : ~IsExpectedEvent(received[i])
    /\ event_was_matched = "True" =>
          \E i \in DOMAIN received : IsExpectedEvent(received[i])
    /\ (clock = SLA_TIMEOUT_SECONDS /\ pc \in {"test_assert", "tearDown", "done"})
          => event_was_matched = "False"
    /\ (pc = "waiting" /\ clock < SLA_TIMEOUT_SECONDS)
          => event_was_matched = "unset"

\* unexpected events arrived, the deadline passed, the wait returned False
C4_Witness ==
    /\ event_was_matched = "False"
    /\ Len(received) >= 2
    /\ pc = "test_assert"

\* ---- C9 ------------------------------------------------------------------

\* C9: when the wait has returned False (no received event had both the
\* expected source and the expected detail-type), the test method ends with
\* the AssertionError of assertTrue, which unittest reports as a failure, not
\* with any other exception; and tearDown still runs: by the end of the run
\* remove_listeners has been called with the listener's handle.
C9_TimeoutIsReportedFailure ==
    event_was_matched = "False" =>
        /\ pc \in {"test_assert", "tearDown", "done"}
        /\ pc # "test_assert" => raised.test = "AssertionError"
        /\ raised.load = None /\ raised.setUp = None
        /\ pc = "done" => RemoveCallsFor(listener_id) = 1

\* one event with another source and one with another detail-type arrived;
\* the run ended as a failure and tearDown ran
C9_Witness ==
    /\ pc = "done"
    /\ event_was_matched = "False"
    /\ Len(received) = 2
    /\ received[1].source # "video.plugin.PythonMinimalPlugin"
    /\ received[2].source = "video.plugin.PythonMinimalPlugin"
    /\ received[2].detail_type # "plugin-complete"
    /\ raised.test = "AssertionError"

\* ---- C8 ------------------------------------------------------------------

OrderAsStated ==
    {<<"UNINITIALIZED", "LISTENING">>,
     <<"LISTENING", "MATCHED">>, <<"LISTENING", "TIMED_OUT">>,
     <<"MATCHED", "CLEANED_UP">>, <<"TIMED_OUT", "CLEANED_UP">>}

\* C8 as stated: the harness state changes only along UNINITIALIZED ->
\* LISTENING -> (MATCHED | TIMED_OUT) -> CLEANED_UP, never from LISTENING
\* straight to CLEANED_UP, and every run that reaches LISTENING eventually
\* reaches CLEANED_UP.
C8_OrderAsStated ==
    /\ [][HarnessState' # HarnessState
            => <<HarnessState, HarnessState'>> \in OrderAsStated]_vars
    /\ (HarnessState = "LISTENING") ~> (HarnessState = "CLEANED_UP")

\* C8 amended: the harness state changes only along UNINITIALIZED ->
\* LISTENING -> (MATCHED | TIMED_OUT) -> CLEANED_UP, except that LISTENING
\* goes straight to CLEANED_UP when start_execution or
\* wait_until_event_matched raised (and only then); no state is revisited;
\* and every run that reaches LISTENING eventually ends with
\* remove_listeners called on the handle, in CLEANED_UP whenever that call
\* returned (when it raises, the listener may stay registered).
C8_OrderWithErrorPath ==
    /\ [][HarnessState' # HarnessState
            => \/ <<HarnessState, HarnessState'>> \in OrderAsStated
               \/ /\ HarnessState = "LISTENING"
                  /\ HarnessState' = "CLEANED_UP"
                  /\ raised.test = "ServiceError"]_vars
    /\ [][(/\ HarnessState = "LISTENING"
           /\ raised.test = "ServiceError"
           /\ pc' = "done"
           /\ raised'.tearDown = None) => HarnessState' = "CLEANED_UP"]_vars
    /\ (HarnessState = "LISTENING")
          ~> (/\ pc = "done"
              /\ RemoveCallsFor(listener_id) = 1
              /\ raised.tearDown = None => HarnessState = "CLEANED_UP")

\* wait_until_event_matched raised while listening, and tearDown cleaned up
C8_Witness ==
    /\ pc = "done"
    /\ HarnessState = "CLEANED_UP"
    /\ event_was_matched = "unset"
    /\ raised.test = "ServiceError"
    /\ Cardinality(CallsOf("wait_until_event_matched")) = 1

\* ---- C2 ------------------------------------------------------------------

C7_FailureEndsInFault ==
    caught # None =>
        /\ response = Unbound
        /\ result.kind # "return"
        /\ spc \in {"return", "done"} => printed = <<[exc |-> caught]>>
        /\ spc = "done" =>
              /\ result = [kind |-> "fault", exc |-> "UnboundLocalError"]
              /\ result.exc # caught

\* retrieveStock raised ConnectionError and the call has ended in the fault
C7_Witness ==
    /\ spc = "done"
    /\ caught = "ConnectionError"
    /\ result.kind = "fault"

====
